---- MODULE Spec2Model ----
(***************************************************************************)
(* Model of src/pot/livetime.py: query_pot_interval, the leaf that asks    *)
(* the beam database for the spills and POT of a window, and               *)
(* get_livetime_interval, the loop that clips every DAQ interval to the    *)
(* query window, accumulates the overlap and the collected spills / POT,   *)
(* asks for the delivered spills / POT of the full window and divides.     *)
(*                                                                         *)
(* Datetimes are whole epoch seconds (integers), so that                   *)
(* int(datetime.timestamp()) and timedelta.total_seconds() are exact.      *)
(* POT samples are integers, so that sums are exact.  A quotient of two    *)
(* floats is kept as the pair (num, den) it is computed from.              *)
(***************************************************************************)
EXTENDS Integers, Sequences, FiniteSets

\* Bounds of the model.
MaxT == 2           \* datetimes are drawn from 0..MaxT
MaxIntervals == 2   \* the DAQ interval list holds at most MaxIntervals intervals

Times == 0..MaxT
\* Inputs from the database: the HTTP statuses it may answer with, and the
\* data lines (beam samples of E:TOR875) of the bodies it may answer with.
StatusCodes == {200, 404, 500}
Bodies == {<<>>, <<1, 2>>}

VARIABLES
    t0, t1,            \* the query window (arguments)
    starts, ends,      \* the DAQ interval list (arguments)
    i,                 \* position of the for loop in zip(starts, ends)
    overlap,           \* timedelta, in seconds
    collected_spills, collected_pot,
    delivered_spills, delivered_pot,
    pc,                \* "loop", "returned", "raised"
    returned,          \* the six-tuple of line 111, or NoValue
    raised,            \* the exception that left the call, or NoValue
    requests           \* history: every requests.get of the call, in order

vars == <<t0, t1, starts, ends, i, overlap, collected_spills, collected_pot,
          delivered_spills, delivered_pot, pc, returned, raised, requests>>

NoValue == <<>>

----------------------------------------------------------------------------
\* Helpers

Max(a, b) == IF a >= b THEN a ELSE b
Min(a, b) == IF a <= b THEN a ELSE b

RECURSIVE SeqSum(_)
SeqSum(s) == IF s = <<>> THEN 0 ELSE Head(s) + SeqSum(Tail(s))

\* zip(starts, ends): pairs up to the shorter of the two lists.
Zip(ss, es) == [k \in 1..Min(Len(ss), Len(es)) |-> <<ss[k], es[k]>>]

\* All sequences over S of length at most n.
SeqsUpTo(S, n) == UNION {[1..k -> S] : k \in 0..n}

----------------------------------------------------------------------------
\* The database's answers: an HTTP status and a CSV body.  A line is the
\* sequence of its comma-separated fields; the empty line is <<>>.

HeaderLine == <<"clock", "value">>
EmptyLine == <<>>
CsvText(samples) ==
    <<HeaderLine>> \o [k \in 1..Len(samples) |-> <<"t", samples[k]>>] \o <<EmptyLine>>

Responses ==
    {[status_code |-> s, text |-> CsvText(b)] :
        s \in StatusCodes, b \in Bodies}

\* line 45: the last field of every non-empty line after the header.
ParseData(text) ==
    LET lines == SelectSeq(Tail(text), LAMBDA line : line # EmptyLine)
    IN  [k \in 1..Len(lines) |-> lines[k][Len(lines[k])]]

\* A status check that lets the client errors through.
IsError_server(response) == response.status_code >= 500

\* line 42: the status check of query_pot_interval.
IsError(response) == response.status_code # 200

\* query_pot_interval(t0, t1), given the response requests.get obtained:
\* either the RuntimeError of line 43 or the pair of line 46.
query_pot_interval(response) ==
    IF IsError(response)
    THEN [raises |-> <<"RuntimeError", response.status_code>>]
    ELSE LET data == ParseData(response.text)
         IN  [spills |-> Len(data), pot |-> SeqSum(data)]

\* The url of line 39 carries the window as integer epoch seconds.
Request(kind, a, b, response) ==
    [kind |-> kind, t0 |-> a, t1 |-> b, status_code |-> response.status_code,
     spills |-> IF IsError(response) THEN 0 ELSE query_pot_interval(response).spills,
     pot |-> IF IsError(response) THEN 0 ELSE query_pot_interval(response).pot]

----------------------------------------------------------------------------
\* get_livetime_interval

\* Variants of the steps below, each the slip named in its comment.
Skipped_both(start, end, a, b) == start > b /\ end < a       \* and for or
Skipped_strict(start, end, a, b) == start >= b \/ end <= a   \* touching is skipped
ClipStart_min(a, start) == IF a <= start THEN a ELSE start  \* min for max
ClipEnd_max(b, end) == IF b >= end THEN b ELSE end          \* max for min
Duration_inclusive(s0, s1) == s1 - s0 + 1                   \* counts both end seconds
Accumulate_assign(acc, x) == x                              \* = for +=

\* line 93
Skipped(start, end, a, b) == start > b \/ end < a
\* lines 95, 96
ClipStart(a, start) == Max(a, start)
ClipEnd(b, end) == Min(b, end)
\* line 97: s1 - s0
Duration(s0, s1) == s1 - s0
\* lines 97, 99, 100: +=
Accumulate(acc, x) == acc + x

Init ==
    /\ t0 \in Times
    /\ t1 \in Times
    /\ \E ivs \in SeqsUpTo(Times \X Times, MaxIntervals) :
          /\ starts = [k \in 1..Len(ivs) |-> ivs[k][1]]
          /\ ends = [k \in 1..Len(ivs) |-> ivs[k][2]]
    /\ i = 1
    /\ overlap = 0
    /\ collected_spills = 0
    /\ collected_pot = 0
    /\ delivered_spills = NoValue
    /\ delivered_pot = NoValue
    /\ pc = "loop"
    /\ returned = NoValue
    /\ raised = NoValue
    /\ requests = <<>>

\* lines 92-94: the interval does not meet the window
LoopSkip ==
    /\ pc = "loop"
    /\ i <= Len(Zip(starts, ends))
    /\ LET start == Zip(starts, ends)[i][1]
           end == Zip(starts, ends)[i][2]
       IN  Skipped(start, end, t0, t1)
    /\ i' = i + 1
    /\ UNCHANGED <<t0, t1, starts, ends, overlap, collected_spills, collected_pot,
                   delivered_spills, delivered_pot, pc, returned, raised, requests>>

\* lines 92-100: the interval meets the window
LoopQuery ==
    /\ pc = "loop"
    /\ i <= Len(Zip(starts, ends))
    /\ LET start == Zip(starts, ends)[i][1]
           end == Zip(starts, ends)[i][2]
           s0 == ClipStart(t0, start)
           s1 == ClipEnd(t1, end)
       IN  /\ ~Skipped(start, end, t0, t1)
           /\ overlap' = Accumulate(overlap, Duration(s0, s1))
           /\ \E response \in Responses :
                LET query == query_pot_interval(response)
                IN  /\ requests' = Append(requests, Request("sub", s0, s1, response))
                    /\ IF IsError(response)
                       THEN /\ pc' = "raised"
                            /\ raised' = query.raises
                            /\ UNCHANGED <<i, collected_spills, collected_pot>>
                       ELSE /\ collected_spills' = Accumulate(collected_spills, query.spills)
                            /\ collected_pot' = Accumulate(collected_pot, query.pot)
                            /\ i' = i + 1
                            /\ UNCHANGED <<pc, raised>>
    /\ UNCHANGED <<t0, t1, starts, ends, delivered_spills, delivered_pot, returned>>

\* query[1], query[0]
DeliveredOf_swapped(query) == [spills |-> query.pot, pot |-> query.spills]

\* lines 104, 105: query[0], query[1]
DeliveredOf(query) == [spills |-> query.spills, pot |-> query.pot]

\* duration / livetime
Divide_inverted(num, den) ==
    IF num = 0 THEN [raises |-> <<"ZeroDivisionError", 0>>]
    ELSE [num |-> den, den |-> num]
\* a division that answers inf or nan on a zero divisor
Divide_unguarded(num, den) == [num |-> num, den |-> den]

\* line 109: float / float raises ZeroDivisionError on a zero divisor
Divide(num, den) ==
    IF den = 0 THEN [raises |-> <<"ZeroDivisionError", 0>>]
    ELSE [num |-> num, den |-> den]

\* lines 103-111: after the loop, the full window, the division, the return
AfterLoop ==
    /\ pc = "loop"
    /\ i > Len(Zip(starts, ends))
    /\ \E response \in Responses :
         LET query == query_pot_interval(response)
             livetime == overlap
             livetime_fraction == Divide(livetime, t1 - t0)
         IN  /\ requests' = Append(requests, Request("full", t0, t1, response))
             /\ IF IsError(response)
                THEN /\ pc' = "raised"
                     /\ raised' = query.raises
                     /\ UNCHANGED <<delivered_spills, delivered_pot, returned>>
                ELSE /\ delivered_spills' = DeliveredOf(query).spills
                     /\ delivered_pot' = DeliveredOf(query).pot
                     /\ IF "raises" \in DOMAIN livetime_fraction
                        THEN /\ pc' = "raised"
                             /\ raised' = livetime_fraction.raises
                             /\ UNCHANGED returned
                        ELSE /\ pc' = "returned"
                             /\ returned' = <<livetime, livetime_fraction,
                                              delivered_spills', collected_spills,
                                              delivered_pot', collected_pot>>
                             /\ UNCHANGED raised
    /\ UNCHANGED <<t0, t1, starts, ends, i, overlap, collected_spills, collected_pot>>

Next == LoopSkip \/ LoopQuery \/ AfterLoop

Spec == Init /\ [][Next]_vars

----------------------------------------------------------------------------
\* get_livetime_interval as a function of its arguments and of a database
\* that answers every window with status 200: source[<<a, b>>] is the pair
\* query_pot_interval(a, b) returns.

\* lines 86-100: overlap, collected_spills, collected_pot after the first k
\* pairs of zip(starts, ends)
RECURSIVE LoopAfter(_, _, _, _, _)
LoopAfter(k, a, b, zipped, source) ==
    IF k = 0 THEN [overlap |-> 0, collected_spills |-> 0, collected_pot |-> 0]
    ELSE LET before == LoopAfter(k - 1, a, b, zipped, source)
             start == zipped[k][1]
             end == zipped[k][2]
             s0 == ClipStart(a, start)
             s1 == ClipEnd(b, end)
             query == source[<<s0, s1>>]
         IN  IF Skipped(start, end, a, b) THEN before
             ELSE [overlap |-> Accumulate(before.overlap, Duration(s0, s1)),
                   collected_spills |-> Accumulate(before.collected_spills, query.spills),
                   collected_pot |-> Accumulate(before.collected_pot, query.pot)]

\* lines 86-111
get_livetime_interval(a, b, ss, es, source) ==
    LET zipped == Zip(ss, es)
        loop == LoopAfter(Len(zipped), a, b, zipped, source)
        delivered == DeliveredOf(source[<<a, b>>])
        livetime == loop.overlap
        livetime_fraction == Divide(livetime, b - a)
    IN  IF "raises" \in DOMAIN livetime_fraction
        THEN livetime_fraction
        ELSE <<livetime, livetime_fraction, delivered.spills,
               loop.collected_spills, delivered.pot, loop.collected_pot>>

----------------------------------------------------------------------------
\* Vocabulary of the properties.  It is stated on the arguments and on the
\* history of requests alone, not with the operators of the steps above.

Count == Len(starts)

\* Interval k is not skipped: not (start > t1 or end < t0).
Meets(k) == ~(starts[k] > t1 \/ ends[k] < t0)

\* The clipped window of interval k.
Clipped(k) == <<IF t0 >= starts[k] THEN t0 ELSE starts[k],
                IF t1 <= ends[k] THEN t1 ELSE ends[k]>>

\* The indices of the intervals among the first k that are not skipped.
RECURSIVE MeetingUpTo(_)
MeetingUpTo(k) ==
    IF k = 0 THEN <<>>
    ELSE IF Meets(k) THEN Append(MeetingUpTo(k - 1), k) ELSE MeetingUpTo(k - 1)

\* The sum of s1 - s0 over the intervals among the first k that are not skipped.
RECURSIVE OverlapUpTo(_)
OverlapUpTo(k) ==
    IF k = 0 THEN 0
    ELSE OverlapUpTo(k - 1) + (IF Meets(k) THEN Clipped(k)[2] - Clipped(k)[1] ELSE 0)

SubRequests == SelectSeq(requests, LAMBDA r : r.kind = "sub")
FullRequests == SelectSeq(requests, LAMBDA r : r.kind = "full")

RECURSIVE SpillsOf(_)
SpillsOf(rs) == IF rs = <<>> THEN 0 ELSE Head(rs).spills + SpillsOf(Tail(rs))
RECURSIVE PotOf(_)
PotOf(rs) == IF rs = <<>> THEN 0 ELSE Head(rs).pot + PotOf(Tail(rs))

NoRequestFailed == \A j \in 1..Len(requests) : requests[j].status_code = 200

\* The database answered the same window identically every time it was asked.
SourceConsistent ==
    \A j, k \in 1..Len(requests) :
        (requests[j].t0 = requests[k].t0 /\ requests[j].t1 = requests[k].t1)
            => /\ requests[j].status_code = requests[k].status_code
               /\ requests[j].spills = requests[k].spills
               /\ requests[j].pot = requests[k].pot

\* The database as a function of the window, read off the history.
SourceOf ==
    [w \in Times \X Times |->
        IF \E j \in 1..Len(requests) : <<requests[j].t0, requests[j].t1>> = w
        THEN LET j == CHOOSE j \in 1..Len(requests) :
                         <<requests[j].t0, requests[j].t1>> = w
             IN  [spills |-> requests[j].spills, pot |-> requests[j].pot]
        ELSE [spills |-> 0, pot |-> 0]]

\* Permutations[n]: the permutations of 1..n.
Permutations ==
    [n \in 0..MaxIntervals |->
        {p \in [1..n -> 1..n] : \A j, k \in 1..n : p[j] = p[k] => j = k}]

\* A quotient num / den lies in [0, 1].
InUnitInterval(q) ==
    IF q.den > 0 THEN 0 <= q.num /\ q.num <= q.den
    ELSE q.den < 0 /\ q.den <= q.num /\ q.num <= 0

----------------------------------------------------------------------------
\* C1: an interval with start > t1 or end < t0 is skipped: the step of the
\* loop that passes it leaves overlap, collected_spills and collected_pot as
\* they are and issues no request.
C1_SkippedIntervalAddsNothing ==
    [][(/\ pc = "loop"
        /\ i <= Count
        /\ (starts[i] > t1 \/ ends[i] < t0))
       => (/\ overlap' = overlap
           /\ collected_spills' = collected_spills
           /\ collected_pot' = collected_pot
           /\ requests' = requests)]_vars

\* The loop has passed a skipped interval that lies after the window, while a
\* later one is still to come.
C1_Witness ==
    /\ pc = "loop"
    /\ i = 2
    /\ Count = 2
    /\ starts[1] > t1
    /\ ends[1] >= t0
    /\ requests = <<>>
    /\ overlap = 0

\* C2 as stated: for every interval that is not skipped, the window passed to
\* query_pot_interval is (max(t0, start), min(t1, end)) and satisfies
\* t0 <= s0 <= s1 <= t1, start <= s0 and s1 <= end.
C2_ClippedWindowOrdered ==
    LET subs == SubRequests
        meeting == MeetingUpTo(Count)
    IN  \A j \in 1..Len(subs) :
            j <= Len(meeting) =>
                LET k == meeting[j]
                    s0 == subs[j].t0
                    s1 == subs[j].t1
                IN  /\ t0 <= s0 /\ s0 <= s1 /\ s1 <= t1
                    /\ starts[k] <= s0 /\ s1 <= ends[k]

\* C2 amended: for every interval that is not skipped, the window passed to
\* query_pot_interval is (max(t0, start), min(t1, end)); it satisfies
\* t0 <= s0, s1 <= t1, start <= s0 and s1 <= end, and it satisfies s0 <= s1
\* whenever t0 <= t1 and start <= end.
C2_ClippedWindowWithinBoth ==
    LET subs == SubRequests
        meeting == MeetingUpTo(Count)
    IN  /\ Len(subs) <= Len(meeting)
        /\ \A j \in 1..Len(subs) :
              j <= Len(meeting) =>
                LET k == meeting[j]
                    s0 == subs[j].t0
                    s1 == subs[j].t1
                IN  /\ s0 = (IF t0 >= starts[k] THEN t0 ELSE starts[k])
                    /\ s1 = (IF t1 <= ends[k] THEN t1 ELSE ends[k])
                    /\ t0 <= s0 /\ s1 <= t1
                    /\ starts[k] <= s0 /\ s1 <= ends[k]
                    /\ (t0 <= t1 /\ starts[k] <= ends[k]) => s0 <= s1

\* A well-formed interval that sticks out of the window on both sides has
\* been clipped on both sides and queried.
C2_Witness ==
    /\ Count >= 1
    /\ starts[1] < t0 /\ t0 <= t1 /\ t1 < ends[1]
    /\ Len(requests) >= 1
    /\ requests[1].kind = "sub"
    /\ requests[1].t0 = t0 /\ requests[1].t1 = t1

\* C3: when every DAQ interval lies within the window (t0 <= start <= end <=
\* t1) and no two of them overlap, the returned livetime_fraction lies in
\* [0, 1] and the returned livetime in [0, t1 - t0].
C3_FractionInUnitInterval ==
    (/\ pc = "returned"
     /\ \A k \in 1..Count : t0 <= starts[k] /\ starts[k] <= ends[k] /\ ends[k] <= t1
     /\ \A j, k \in 1..Count :
            j # k => (ends[j] <= starts[k] \/ ends[k] <= starts[j]))
    => /\ InUnitInterval(returned[2])
       /\ (t0 <= t1 => (0 <= returned[1] /\ returned[1] <= t1 - t0))

\* Two adjacent intervals that fill the window: the fraction 1 is reached.
C3_Witness ==
    /\ pc = "returned"
    /\ Count = 2
    /\ t0 = starts[1] /\ starts[1] < ends[1] /\ ends[1] = starts[2]
    /\ starts[2] < ends[2] /\ ends[2] = t1
    /\ returned[2].num = returned[2].den
    /\ returned[2].den > 0

\* C4: a call in which no request fails issues exactly 1 + k requests, k the
\* number of intervals with start <= t1 and end >= t0.
C4_RequestCount ==
    (/\ pc \in {"returned", "raised"}
     /\ NoRequestFailed)
    => Len(requests) =
         1 + Cardinality({k \in 1..Count : starts[k] <= t1 /\ ends[k] >= t0})

\* Two intervals that touch the window at t0 only, and so yield the same
\* clipped window (t0, t0): three requests.
C4_Witness ==
    /\ pc = "returned"
    /\ Count = 2
    /\ ends[1] = t0 /\ starts[1] < t0
    /\ ends[2] = t0
    /\ Len(requests) = 3
    /\ <<requests[1].t0, requests[1].t1>> = <<t0, t0>>
    /\ <<requests[2].t0, requests[2].t1>> = <<t0, t0>>

\* C5: a request answered with a status other than 200 is the last request
\* of the call; the call has raised the error carrying that status and has
\* returned no report.
C5_FailedRequestAborts ==
    \A j \in 1..Len(requests) :
        requests[j].status_code # 200
            => /\ j = Len(requests)
               /\ pc = "raised"
               /\ raised = <<"RuntimeError", requests[j].status_code>>
               /\ returned = NoValue

\* The second sub-interval request is answered 404 after the first succeeded.
C5_Witness ==
    /\ pc = "raised"
    /\ Len(requests) = 2
    /\ requests[1].status_code = 200
    /\ requests[2].kind = "sub"
    /\ requests[2].status_code = 404
    /\ raised = <<"RuntimeError", 404>>
    /\ i = 2
    /\ Count = 2

\* C6: with t0 = t1 no report is ever returned, and a call whose requests all
\* succeed ends with the ZeroDivisionError.
C6_ZeroWindowRaises ==
    (t0 = t1)
    => /\ pc # "returned"
       /\ returned = NoValue
       /\ (pc = "raised" /\ NoRequestFailed) => raised[1] = "ZeroDivisionError"

\* A zero-length window with an interval that meets it: the division fails
\* after both requests succeeded.
C6_Witness ==
    /\ t0 = t1
    /\ Count >= 1
    /\ pc = "raised"
    /\ raised[1] = "ZeroDivisionError"
    /\ Len(requests) = 2
    /\ NoRequestFailed

\* C7: with t0 < t1, the single interval (t0, t1) and a database that answers
\* the same window identically, the report has livetime = t1 - t0,
\* livetime_fraction = 1 and collected_* = delivered_*.
C7_FullCoverage ==
    (/\ pc = "returned"
     /\ t0 < t1
     /\ starts = <<t0>>
     /\ ends = <<t1>>
     /\ SourceConsistent)
    => /\ returned[1] = t1 - t0
       /\ returned[2].num = returned[2].den
       /\ returned[2].den # 0
       /\ returned[4] = returned[3]
       /\ returned[6] = returned[5]

C7_Witness ==
    /\ pc = "returned"
    /\ t0 < t1
    /\ starts = <<t0>>
    /\ ends = <<t1>>
    /\ SourceConsistent
    /\ returned[5] > 0

\* C8: for a database that answers each window deterministically, the report
\* is the one get_livetime_interval yields for every permutation applied to
\* both starts and ends.
C8_OrderIndependent ==
    (/\ pc = "returned"
     /\ SourceConsistent)
    => LET source == SourceOf
       IN  \A p \in Permutations[Count] :
             get_livetime_interval(t0, t1,
                                   [k \in 1..Count |-> starts[p[k]]],
                                   [k \in 1..Count |-> ends[p[k]]],
                                   source) = returned

\* Two intervals with different clipped windows, of different lengths and
\* answered differently.
C8_Witness ==
    /\ pc = "returned"
    /\ SourceConsistent
    /\ Count = 2
    /\ Len(requests) = 3
    /\ requests[1].t1 - requests[1].t0 # requests[2].t1 - requests[2].t0
    /\ requests[1].pot # requests[2].pot
    /\ returned[1] > 0

\* C9: in a call that returns, there is exactly one full-window request, for
\* (t0, t1), it is the last request, and delivered_spills and delivered_pot
\* are its result.
C9_FullWindowLast ==
    (pc = "returned")
    => /\ Len(FullRequests) = 1
       /\ Len(requests) >= 1
       /\ LET last == requests[Len(requests)]
          IN  /\ last.kind = "full"
              /\ last.t0 = t0 /\ last.t1 = t1
              /\ returned[3] = last.spills
              /\ returned[5] = last.pot

\* The interval is the window itself, the two requests for it are answered
\* differently, and delivered_* is the answer to the second one.
C9_Witness ==
    /\ pc = "returned"
    /\ Len(requests) = 2
    /\ <<requests[1].t0, requests[1].t1>> = <<t0, t1>>
    /\ requests[1].pot # requests[2].pot
    /\ returned[5] = requests[2].pot
    /\ returned[6] = requests[1].pot
    /\ returned[5] > 0

\* C10: at the head of the loop, after the first i - 1 intervals, overlap is
\* the sum of min(t1, end) - max(t0, start) over those not skipped, one
\* request has been issued for the clipped window of each of them, and
\* collected_spills and collected_pot are the sums of the answers; after the
\* loop the same holds of the whole list, and the returned livetime and
\* collected_* are these sums.
C10_LoopInvariant ==
    LET passed == IF pc = "loop" THEN i - 1 ELSE Count
        meeting == MeetingUpTo(passed)
        subs == SubRequests
    IN  (pc \in {"loop", "returned"})
        => /\ passed \in 0..Count
           /\ overlap = OverlapUpTo(passed)
           /\ Len(subs) = Len(meeting)
           /\ \A j \in 1..Len(meeting) :
                 j <= Len(subs) =>
                    <<subs[j].t0, subs[j].t1>> = Clipped(meeting[j])
           /\ collected_spills = SpillsOf(subs)
           /\ collected_pot = PotOf(subs)
           /\ (pc = "returned")
                => /\ returned[1] = OverlapUpTo(Count)
                   /\ returned[4] = SpillsOf(subs)
                   /\ returned[6] = PotOf(subs)

\* Midway: the first interval, which ends after the window, has been clipped
\* and queried with a non-empty answer, and the loop is at the second.
C10_Witness ==
    /\ pc = "loop"
    /\ i = 2
    /\ Count = 2
    /\ Len(requests) = 1
    /\ overlap > 0
    /\ collected_pot > 0
    /\ collected_spills > 0
    /\ ends[1] > t1

====
